---- MODULE Spec2Model ----
(***************************************************************************)
(* Model of macbook/organize_downloads.py: one pass over the immediate     *)
(* children of a directory, classification by extension, and a move into   *)
(* a category folder with rename-on-conflict.                              *)
(*                                                                         *)
(* A file name is a sequence of one-character strings, so that Path.suffix *)
(* Path.stem, str.lower and the f-string of unique_target are computed as  *)
(* the code computes them.  A path is a sequence of names relative to the  *)
(* directory being organized.  The filesystem holds regular files and      *)
(* directories (no symbolic links) and names are case-sensitive.           *)
(***************************************************************************)
EXTENDS Integers, Sequences, FiniteSets, TLC

(* ---------------- bounds of the explored directory trees --------------- *)
MaxRootEntries == 3
MaxNested == 1

(* ---------------- configuration (lines 18-43) -------------------------- *)
Videos == <<"V", "i", "d", "e", "o", "s">>
Images == <<"I", "m", "a", "g", "e", "s">>
PDFs == <<"P", "D", "F", "s">>
Documents == <<"D", "o", "c", "u", "m", "e", "n", "t", "s">>
Archives == <<"A", "r", "c", "h", "i", "v", "e", "s">>
Apps == <<"A", "p", "p", "s">>
Code == <<"C", "o", "d", "e">>
Audio == <<"A", "u", "d", "i", "o">>

TYPES ==
    (<<"m", "p", "4">> :> Videos) @@
    (<<"m", "k", "v">> :> Videos) @@
    (<<"m", "o", "v">> :> Videos) @@
    (<<"a", "v", "i">> :> Videos) @@
    (<<"f", "l", "v">> :> Videos) @@
    (<<"w", "m", "v">> :> Videos) @@
    (<<"m", "4", "v">> :> Videos) @@
    (<<"j", "p", "g">> :> Images) @@
    (<<"j", "p", "e", "g">> :> Images) @@
    (<<"p", "n", "g">> :> Images) @@
    (<<"g", "i", "f">> :> Images) @@
    (<<"w", "e", "b", "p">> :> Images) @@
    (<<"h", "e", "i", "c">> :> Images) @@
    (<<"s", "v", "g">> :> Images) @@
    (<<"b", "m", "p">> :> Images) @@
    (<<"t", "i", "f">> :> Images) @@
    (<<"t", "i", "f", "f">> :> Images) @@
    (<<"p", "d", "f">> :> PDFs) @@
    (<<"d", "o", "c">> :> Documents) @@
    (<<"d", "o", "c", "x">> :> Documents) @@
    (<<"x", "l", "s">> :> Documents) @@
    (<<"x", "l", "s", "x">> :> Documents) @@
    (<<"p", "p", "t">> :> Documents) @@
    (<<"p", "p", "t", "x">> :> Documents) @@
    (<<"t", "x", "t">> :> Documents) @@
    (<<"m", "d">> :> Documents) @@
    (<<"r", "t", "f">> :> Documents) @@
    (<<"z", "i", "p">> :> Archives) @@
    (<<"t", "a", "r">> :> Archives) @@
    (<<"g", "z">> :> Archives) @@
    (<<"t", "g", "z">> :> Archives) @@
    (<<"b", "z", "2">> :> Archives) @@
    (<<"r", "a", "r">> :> Archives) @@
    (<<"7", "z">> :> Archives) @@
    (<<"d", "m", "g">> :> Apps) @@
    (<<"p", "k", "g">> :> Apps) @@
    (<<"e", "x", "e">> :> Apps) @@
    (<<"a", "p", "k">> :> Apps) @@
    (<<"p", "y">> :> Code) @@
    (<<"j", "s">> :> Code) @@
    (<<"j", "a", "v", "a">> :> Code) @@
    (<<"c", "l", "a", "s", "s">> :> Code) @@
    (<<"j", "a", "r">> :> Code) @@
    (<<"m", "p", "3">> :> Audio) @@
    (<<"w", "a", "v">> :> Audio) @@
    (<<"f", "l", "a", "c">> :> Audio) @@
    (<<"m", "4", "a">> :> Audio)

ascii_lowercase ==
    ("A" :> "a") @@ ("B" :> "b") @@ ("C" :> "c") @@ ("D" :> "d") @@ ("E" :> "e") @@ ("F" :> "f") @@
    ("G" :> "g") @@ ("H" :> "h") @@ ("I" :> "i") @@ ("J" :> "j") @@ ("K" :> "k") @@ ("L" :> "l") @@
    ("M" :> "m") @@ ("N" :> "n") @@ ("O" :> "o") @@ ("P" :> "p") @@ ("Q" :> "q") @@ ("R" :> "r") @@
    ("S" :> "s") @@ ("T" :> "t") @@ ("U" :> "u") @@ ("V" :> "v") @@ ("W" :> "w") @@ ("X" :> "x") @@
    ("Y" :> "y") @@ ("Z" :> "z")

Other == <<"O", "t", "h", "e", "r">>
DEFAULT_FOLDER == Other

(* ---------------- str / pathlib primitives ----------------------------- *)
\* str.lower(), character by character
lower(s) ==
    [i \in 1..Len(s) |-> IF s[i] \in DOMAIN ascii_lowercase THEN ascii_lowercase[s[i]] ELSE s[i]]

\* str.rfind(c) as a 1-based index, 0 when c does not occur
rfind(s, c) ==
    LET hits == {i \in 1..Len(s) : s[i] = c}
    IN IF hits = {} THEN 0 ELSE CHOOSE i \in hits : \A j \in hits : j <= i

\* PurePath.suffix: the part from the last dot on, empty when the name has
\* no dot, starts with its only dot, or ends with a dot
suffix(name) ==
    LET i == rfind(name, ".")
    IN IF 1 < i /\ i < Len(name) THEN SubSeq(name, i, Len(name)) ELSE <<>>

\* PurePath.stem: the name without its suffix
stem(name) ==
    LET i == rfind(name, ".")
    IN IF 1 < i /\ i < Len(name) THEN SubSeq(name, 1, i - 1) ELSE name

Digits == <<"0", "1", "2", "3", "4", "5", "6", "7", "8", "9">>

\* str(i) for i >= 0, as interpolated by the f-string of unique_target
RECURSIVE str(_)
str(i) ==
    IF i < 10 THEN <<Digits[i + 1]>> ELSE str(i \div 10) \o <<Digits[(i % 10) + 1]>>

\* f"{stem} ({i}){suffix}"
candidate_name(st, i, suf) == st \o <<" ", "(">> \o str(i) \o <<")">> \o suf

(* ---------------- filesystem primitives -------------------------------- *)
\* A filesystem is a function from paths to nodes [kind, id]; id tells one
\* entry from another whatever its name or place (0: a folder the run made).
File(n) == [kind |-> "file", id |-> n]
Dir(n) == [kind |-> "dir", id |-> n]

\* Path.exists()
exists(f, p) == p \in DOMAIN f

\* Path.is_dir()
is_dir(f, p) == p \in DOMAIN f /\ f[p].kind = "dir"

\* dest_dir / name
join(dir, name) == Append(dir, name)

parent(p) == SubSeq(p, 1, Len(p) - 1)

\* Path.mkdir(parents=True, exist_ok=True) of a one-component path
mkdir(f, p) == IF exists(f, p) THEN f ELSE f @@ (p :> Dir(0))

\* os.rename of a file: the source entry disappears, the destination entry
\* is (re)placed
rename(f, src, dst) ==
    [p \in (DOMAIN f \ {src}) \cup {dst} |-> IF p = dst THEN f[src] ELSE f[p]]

\* shutil.move(src, dst) for a regular file src: an existing directory dst
\* means "move into it"
real_dst(f, src, dst) == IF is_dir(f, dst) THEN join(dst, src[Len(src)]) ELSE dst

\* shutil.move succeeds when the destination's parent is a directory and
\* the move-into-directory case does not hit an existing entry
move_ok(f, src, dst) ==
    /\ is_dir(f, parent(real_dst(f, src, dst)))
    /\ (is_dir(f, dst) => ~exists(f, real_dst(f, src, dst)))

shutil_move(f, src, dst) == rename(f, src, real_dst(f, src, dst))

(* ---------------- helpers (lines 45-63) -------------------------------- *)
folder_for_ext(ext) ==
    IF lower(ext) \in DOMAIN TYPES THEN TYPES[lower(ext)] ELSE DEFAULT_FOLDER

\* variant: the candidate is returned without looking whether it exists
probe_unchecked(f, dest_dir, st, suf, i) == join(dest_dir, candidate_name(st, i, suf))

\* variant: no collision resolution at all
unique_target_unchecked(f, dest_dir, name) == join(dest_dir, name)

RECURSIVE probe(_, _, _, _, _)
probe(f, dest_dir, st, suf, i) ==
    LET candidate == join(dest_dir, candidate_name(st, i, suf))
    IN IF ~exists(f, candidate) THEN candidate ELSE probe(f, dest_dir, st, suf, i + 1)

unique_target(f, dest_dir, name) ==
    LET dest == join(dest_dir, name)
    IN IF ~exists(f, dest) THEN dest ELSE probe(f, dest_dir, stem(name), suffix(name), 1)

(* ---------------- main: the body of the for loop (lines 74-102) -------- *)
Line(m, n, p) == [msg |-> m, name |-> n, path |-> p]

\* variant: only directories are skipped, hidden files are processed
skipped_dirs_only(f, name) == is_dir(f, <<name>>)

\* lines 76-79: directories and hidden files are skipped
skipped(f, name) == is_dir(f, <<name>>) \/ name[1] = "."

\* lines 82-85: the extension, without the dot, lowercased
ext_of(name) == IF suffix(name) # <<>> THEN lower(Tail(suffix(name))) ELSE <<>>

\* variant: the test on the extension is inverted
folder_name_inverted(name) ==
    IF ext_of(name) = <<>> THEN folder_for_ext(ext_of(name)) ELSE DEFAULT_FOLDER

\* line 87
folder_name(name) ==
    IF ext_of(name) # <<>> THEN folder_for_ext(ext_of(name)) ELSE DEFAULT_FOLDER

\* the result of one pass through the loop body: ok tells whether the loop
\* goes on, err names the call that failed ("none", "mkdir" or "move")
done(f, o) == [fs |-> f, ok |-> TRUE, err |-> "none", out |-> o]

\* variant: the failure is caught and the loop goes on
swallowed(f, e, o) == [fs |-> f, ok |-> TRUE, err |-> e, out |-> o]

\* a failed call raises, nothing catches it (lines 94, 101)
raised(f, e, o) == [fs |-> f, ok |-> FALSE, err |-> e, out |-> o]

\* variant: the folder is created although dry_run is set
dry_item_mkdir(f, name) ==
    LET target_dir == <<folder_name(name)>>
        f1 == mkdir(f, target_dir)
    IN done(f1, (IF ~exists(f, target_dir)
                 THEN <<Line("Would create folder", <<>>, target_dir)>> ELSE <<>>)
                \o <<Line("Would move", name, unique_target(f1, target_dir, name))>>)

\* lines 88-99 with dry_run set: two reports at most, no filesystem call
\* other than exists()
dry_item(f, name) ==
    LET target_dir == <<folder_name(name)>>
        target_path == unique_target(f, target_dir, name)
    IN done(f, (IF ~exists(f, target_dir)
                THEN <<Line("Would create folder", <<>>, target_dir)>> ELSE <<>>)
               \o <<Line("Would move", name, target_path)>>)

\* lines 88-102 with dry_run clear.  fault names the call the operating
\* system refuses ("mkdir", "move") or "none"; a move whose destination
\* folder is not a directory fails by itself.  An error raised by a call
\* is not caught: it leaves the loop with what was done before it.
live_item(f, name, fault) ==
    LET target_dir == <<folder_name(name)>>
        creates == ~exists(f, target_dir)
        f1 == IF creates THEN mkdir(f, target_dir) ELSE f
        out1 == IF creates THEN <<Line("Created folder", <<>>, target_dir)>> ELSE <<>>
        target_path == unique_target(f1, target_dir, name)
    IN IF creates /\ fault = "mkdir"
       THEN raised(f, "mkdir", <<>>)
       ELSE IF fault = "move" \/ ~move_ok(f1, <<name>>, target_path)
       THEN raised(f1, "move", out1)
       ELSE done(shutil_move(f1, <<name>>, target_path),
                 out1 \o <<Line("Moved", name, real_dst(f1, <<name>>, target_path))>>)

\* the whole loop over a listing, when the operating system refuses nothing
RECURSIVE organize_loop(_, _, _)
organize_loop(f, names, dry) ==
    IF names = <<>> THEN done(f, <<>>)
    ELSE IF skipped(f, Head(names)) THEN organize_loop(f, Tail(names), dry)
    ELSE LET r == IF dry THEN dry_item(f, Head(names)) ELSE live_item(f, Head(names), "none")
             rest == organize_loop(r.fs, Tail(names), dry)
         IN IF ~r.ok THEN r
            ELSE [rest EXCEPT !.out = r.out \o rest.out]

(* ---------------- the directory trees explored ------------------------- *)
a_txt == <<"a", ".", "t", "x", "t">>
b_JPG == <<"b", ".", "J", "P", "G">>
r_pdf == <<"r", ".", "p", "d", "f">>
r_1_pdf == <<"r", " ", "(", "1", ")", ".", "p", "d", "f">>
q_zz == <<"q", ".", "z", "z">>
hidden == <<".", "h">>
sub == <<"s", "u", "b">>

RootPool ==
    { [name |-> a_txt, node |-> File(1)],
      [name |-> b_JPG, node |-> File(2)],
      [name |-> r_pdf, node |-> File(3)],
      [name |-> r_1_pdf, node |-> File(4)],
      [name |-> q_zz, node |-> File(5)],
      [name |-> hidden, node |-> File(7)],
      [name |-> Images, node |-> File(8)],
      [name |-> Other, node |-> File(9)],
      [name |-> sub, node |-> Dir(11)],
      [name |-> PDFs, node |-> Dir(12)],
      [name |-> Images, node |-> Dir(14)] }

NestedPool ==
    { [path |-> <<PDFs, r_pdf>>, node |-> File(21)],
      [path |-> <<PDFs, r_1_pdf>>, node |-> File(22)],
      [path |-> <<sub, a_txt>>, node |-> File(23)],
      [path |-> <<Images, sub>>, node |-> Dir(26)] }

RootSets ==
    {R \in SUBSET RootPool :
        /\ Cardinality(R) <= MaxRootEntries
        /\ \A x, y \in R : x.name = y.name => x = y}

NestedSets(R) ==
    {N \in SUBSET NestedPool :
        /\ Cardinality(N) <= MaxNested
        /\ \A n \in N : \E x \in R : x.name = n.path[1] /\ x.node.kind = "dir"}

Tree(R, N) ==
    [p \in {<<x.name>> : x \in R} \cup {n.path : n \in N} |->
        IF Len(p) = 1 THEN (CHOOSE x \in R : x.name = p[1]).node
        ELSE (CHOOSE n \in N : n.path = p).node]

Trees == UNION {{Tree(R, N) : N \in NestedSets(R)} : R \in RootSets}

EmptyTree == [p \in {} |-> File(0)]

\* the immediate children of the directory
children(f) == {p[1] : p \in {q \in DOMAIN f : Len(q) = 1}}

\* every order in which a listing can enumerate a set of names
Orders(S) ==
    {o \in [1..Cardinality(S) -> S] : \A i, j \in 1..Cardinality(S) : o[i] = o[j] => i = j}

(* ---------------- state ------------------------------------------------ *)
VARIABLES
    rootKind,   \* "dir", "file" or "missing": what the path argument names
    fs,         \* the filesystem below the path argument
    fs0,        \* fs when organize was called
    dry_run,    \* the dry_run argument
    pc,         \* "start", "iterdir", "loop", "returned" or "raised"
    items,      \* the listing downloads.iterdir() enumerates, in its order
    idx,        \* position of the for loop in items
    out,        \* the lines printed so far
    ret,        \* <<v>> once organize has returned v, <<>> before
    refused,    \* TRUE once the operating system refused a mkdir or a move
    failed      \* the call that failed, "none" while none has

vars == <<rootKind, fs, fs0, dry_run, pc, items, idx, out, ret, refused, failed>>

Init ==
    /\ rootKind \in {"dir", "file", "missing"}
    /\ fs \in IF rootKind = "dir" THEN Trees ELSE {EmptyTree}
    /\ fs0 = fs
    /\ dry_run \in BOOLEAN
    /\ pc = "start"
    /\ items = <<>>
    /\ idx = 0
    /\ out = <<>>
    /\ ret = <<>>
    /\ refused = FALSE
    /\ failed = "none"

(* ---------------- organize (lines 66-105) ------------------------------ *)
\* lines 67-69: the argument is not a directory
InvalidRoot ==
    /\ pc = "start"
    /\ rootKind # "dir"
    /\ out' = Append(out, Line("Error: not a directory", <<>>, <<>>))
    /\ ret' = <<1>>
    /\ pc' = "returned"
    /\ UNCHANGED <<rootKind, fs, fs0, dry_run, items, idx, refused, failed>>

\* variant: the run starts without looking at what the argument names
Start_unchecked ==
    /\ pc = "start"
    /\ out' = Append(out, Line(IF dry_run THEN "DRY RUN: Organizing" ELSE "Organizing", <<>>, <<>>))
    /\ pc' = "iterdir"
    /\ UNCHANGED <<rootKind, fs, fs0, dry_run, items, idx, ret, refused, failed>>

\* line 71
Start ==
    /\ pc = "start"
    /\ rootKind = "dir"
    /\ out' = Append(out, Line(IF dry_run THEN "DRY RUN: Organizing" ELSE "Organizing", <<>>, <<>>))
    /\ pc' = "iterdir"
    /\ UNCHANGED <<rootKind, fs, fs0, dry_run, items, idx, ret, refused, failed>>

\* line 74: iterdir() lists the directory once, in an order of its own
Iterdir ==
    /\ pc = "iterdir"
    /\ \E o \in Orders(children(fs)) : items' = o
    /\ idx' = 1
    /\ pc' = "loop"
    /\ UNCHANGED <<rootKind, fs, fs0, dry_run, out, ret, refused, failed>>

\* lines 76-79
Skip ==
    /\ pc = "loop"
    /\ idx <= Len(items)
    /\ skipped(fs, items[idx])
    /\ idx' = idx + 1
    /\ UNCHANGED <<rootKind, fs, fs0, dry_run, pc, items, out, ret, refused, failed>>

\* lines 81-99, dry run
DryItem ==
    /\ pc = "loop"
    /\ idx <= Len(items)
    /\ ~skipped(fs, items[idx])
    /\ dry_run
    /\ LET r == dry_item(fs, items[idx])
       IN /\ fs' = r.fs
          /\ out' = out \o r.out
    /\ idx' = idx + 1
    /\ UNCHANGED <<rootKind, fs0, dry_run, pc, items, ret, refused, failed>>

\* lines 81-102, live run
LiveItem ==
    /\ pc = "loop"
    /\ idx <= Len(items)
    /\ ~skipped(fs, items[idx])
    /\ ~dry_run
    /\ \E fault \in {"none", "mkdir", "move"} :
        LET r == live_item(fs, items[idx], fault)
        IN /\ fault = "mkdir" => ~exists(fs, <<folder_name(items[idx])>>)
           /\ fs' = r.fs
           /\ out' = out \o r.out
           /\ refused' = (refused \/ fault # "none")
           /\ failed' = r.err
           /\ pc' = IF r.ok THEN pc ELSE "raised"
           /\ idx' = IF r.ok THEN idx + 1 ELSE idx
    /\ UNCHANGED <<rootKind, fs0, dry_run, items, ret>>

\* lines 104-105
Done ==
    /\ pc = "loop"
    /\ idx > Len(items)
    /\ out' = Append(out, Line("Done.", <<>>, <<>>))
    /\ ret' = <<0>>
    /\ pc' = "returned"
    /\ UNCHANGED <<rootKind, fs, fs0, dry_run, items, idx, refused, failed>>

Next ==
    \/ InvalidRoot
    \/ Start
    \/ Iterdir
    \/ Skip
    \/ DryItem
    \/ LiveItem
    \/ Done

Spec == Init /\ [][Next]_vars

(* ---------------- vocabulary of the properties ------------------------- *)
Live == rootKind = "dir" /\ ~dry_run
Returned0 == pc = "returned" /\ ret = <<0>>

\* the lines of a log that carry a given message
LinesOf(log, m) == {i \in DOMAIN log : log[i].msg = m}

\* the files the listing qualifies: immediate children that are not
\* directories and whose name does not start with a dot
Qualifying(f) == {n \in children(f) : f[<<n>>].kind # "dir" /\ n[1] # "."}

\* the places of the node that was at path p of tree f, in tree g
PlacesOf(f, p, g) == {q \in DOMAIN g : g[q] = f[p]}

\* the text after the last dot of a name, empty when there is no dot
AfterLastDot(name) ==
    IF \E i \in DOMAIN name : name[i] = "."
    THEN LET i == CHOOSE k \in DOMAIN name :
                    name[k] = "." /\ \A j \in DOMAIN name : j > k => name[j] # "."
         IN SubSeq(name, i + 1, Len(name))
    ELSE <<>>

\* the category the mapping gives a name
CategoryOf(name) ==
    LET e == lower(AfterLastDot(name))
    IN IF e # <<>> /\ e \in DOMAIN TYPES THEN TYPES[e] ELSE Other

Categories == {TYPES[e] : e \in DOMAIN TYPES} \cup {Other}

(* ---------------- C1 --------------------------------------------------- *)
\* C1: a dry run leaves the filesystem exactly as it found it, at every
\* step and whatever it reports: nothing created, moved, renamed, deleted.
C1_DryRunChangesNothing == dry_run => fs = fs0

\* a dry run that ended after reporting a folder creation and a move
C1_Witness ==
    /\ dry_run
    /\ Returned0
    /\ LinesOf(out, "Would create folder") # {}
    /\ LinesOf(out, "Would move") # {}

(* ---------------- C2 --------------------------------------------------- *)
\* C2: in a live run the destination of every move names no existing entry
\* when the move is performed, and every entry that was inside a folder
\* before the run is still there, same name, same file.
C2_MoveTargetFree ==
    \A i \in DOMAIN out' \ DOMAIN out : out'[i].msg = "Moved" => ~exists(fs, out'[i].path)

C2_NestedKept ==
    Live => \A p \in DOMAIN fs0 : Len(p) >= 2 => exists(fs, p) /\ fs[p] = fs0[p]

C2_NoOverwrite == []C2_NestedKept /\ [][C2_MoveTargetFree]_vars

\* r.pdf met PDFs/r.pdf and went to PDFs/r (1).pdf
C2_Witness ==
    /\ Live
    /\ Returned0
    /\ exists(fs0, <<PDFs, r_pdf>>)
    /\ exists(fs0, <<r_pdf>>)
    /\ exists(fs, <<PDFs, r_1_pdf>>)
    /\ fs[<<PDFs, r_1_pdf>>] = fs0[<<r_pdf>>]
    /\ fs[<<PDFs, r_pdf>>] = fs0[<<PDFs, r_pdf>>]

(* ---------------- C3 --------------------------------------------------- *)
\* C3: after a live run that raised nothing, organize has returned 0 and
\* every qualifying entry is in exactly one place, root/<category>/<name'>,
\* where <category> is the category of the lowercased text after the last
\* dot (Other when empty or unmapped) and name' is the original name unless
\* another entry holds that name in the folder.
C3_Placed(n) ==
    LET places == PlacesOf(fs0, <<n>>, fs)
    IN /\ Cardinality(places) = 1
       /\ \A q \in places :
            /\ Len(q) = 2
            /\ q[1] = CategoryOf(n)
            /\ q[2] # n => exists(fs, <<q[1], n>>)

C3_LiveRunPostcondition ==
    (Live /\ pc = "returned") => ret = <<0>> /\ \A n \in Qualifying(fs0) : C3_Placed(n)

\* an upper-case extension was mapped and a colliding name was renamed
C3_Witness ==
    /\ Live
    /\ Returned0
    /\ {b_JPG, r_pdf} \subseteq Qualifying(fs0)
    /\ PlacesOf(fs0, <<b_JPG>>, fs) = {<<Images, b_JPG>>}
    /\ PlacesOf(fs0, <<r_pdf>>, fs) = {<<PDFs, r_1_pdf>>}

(* ---------------- C4 --------------------------------------------------- *)
\* C4: when the argument is missing or not a directory, organize returns a
\* non-zero status, lists nothing and changes nothing, dry run or not.
C4_InvalidRootNoEffect ==
    rootKind # "dir" =>
        /\ fs = fs0
        /\ items = <<>>
        /\ idx = 0
        /\ pc \in {"start", "returned"}
        /\ pc = "returned" => (ret # <<>> /\ ret # <<0>>)

C4_Witness == rootKind = "missing" /\ pc = "returned" /\ ret = <<1>> /\ ~dry_run

(* ---------------- C5 --------------------------------------------------- *)
\* C5: a run never moves, renames or deletes an immediate child that is a
\* directory or hidden, nor anything below a subdirectory; all it adds
\* below a subdirectory is a listed file, directly inside a category folder.
C5_SkippedStay ==
    /\ \A p \in DOMAIN fs0 :
         (Len(p) >= 2 \/ fs0[p].kind = "dir" \/ p[1][1] = ".")
            => exists(fs, p) /\ fs[p] = fs0[p]
    /\ \A p \in DOMAIN fs \ DOMAIN fs0 :
         Len(p) >= 2 =>
            /\ Len(p) = 2
            /\ p[1] \in Categories
            /\ \E n \in Qualifying(fs0) : fs[p] = fs0[<<n>>]

\* a live run moved a file and passed by a hidden file and a subdirectory
C5_Witness ==
    /\ Live
    /\ Returned0
    /\ exists(fs0, <<hidden>>)
    /\ is_dir(fs0, <<sub>>)
    /\ LinesOf(out, "Moved") # {}

(* ---------------- C6 --------------------------------------------------- *)
\* the directory itself, its subdirectories, and a folder that may be absent
ProbedDirs == {<<>>, <<PDFs>>} \cup {p \in DOMAIN fs : is_dir(fs, p)}
\* names with a suffix, already numbered, without suffix, starting with a dot
ProbedNames == {r_pdf, r_1_pdf, a_txt, Images, hidden}
MaxK == Cardinality(DOMAIN fs) + 1

\* C6: unique_target returns dest_dir/name when nothing is there, else
\* dest_dir/"<stem> (k)<suffix>" for the least k >= 1 where nothing is; the
\* path returned never names an existing entry.
C6_UniqueTarget ==
    \A d \in ProbedDirs, n \in ProbedNames :
        LET t == unique_target(fs, d, n)
            cand(k) == d \o <<stem(n) \o <<" ", "(">> \o str(k) \o <<")">> \o suffix(n)>>
        IN /\ ~exists(fs, t)
           /\ ~exists(fs, d \o <<n>>) => t = d \o <<n>>
           /\ exists(fs, d \o <<n>>) =>
                \E k \in 1..MaxK :
                    /\ t = cand(k)
                    /\ \A j \in 1..(k - 1) : exists(fs, cand(j))

\* with PDFs/r.pdf and PDFs/r (1).pdf in place the answer is PDFs/r (2).pdf
C6_Witness ==
    /\ exists(fs, <<PDFs, r_pdf>>)
    /\ exists(fs, <<PDFs, r_1_pdf>>)
    /\ LinesOf(out, "Moved") # {}
    /\ unique_target(fs, <<PDFs>>, r_pdf)
         = <<PDFs, <<"r", " ", "(", "2", ")", ".", "p", "d", "f">>>>

(* ---------------- C7 --------------------------------------------------- *)
\* C7: a dry run reports "would create folder" at most once per category.
C7_WouldCreateOnce ==
    dry_run =>
        \A i, j \in LinesOf(out, "Would create folder") : out[i].path = out[j].path => i = j

(* ---------------- C8 --------------------------------------------------- *)
\* where a log says each entry went: name -> category folder
FolderOfMoves(log) == {<<log[i].name, log[i].path[1]>> : i \in LinesOf(log, "Moved")}

\* C8: whatever the enumeration order, a live run of the same directory
\* ends the same way (returns or raises) and puts each entry in the same
\* category folder.
C8_OrderIndependent ==
    (Live /\ ~refused /\ pc \in {"returned", "raised"}) =>
        \A o \in Orders(children(fs0)) :
            LET r == organize_loop(fs0, o, FALSE)
            IN /\ r.ok = (pc = "returned")
               /\ (r.ok => FolderOfMoves(r.out) = FolderOfMoves(out))

(* ---------------- C9 --------------------------------------------------- *)
\* C9: when a mkdir or a move fails in a live run the run stops there: no
\* status is returned, no later entry is processed, the entries moved
\* before stay where they were moved.
C9_Stopped ==
    failed # "none" =>
        /\ pc = "raised"
        /\ ret = <<>>
        /\ \A i \in LinesOf(out, "Moved") :
             exists(fs, out[i].path) /\ fs[out[i].path] = fs0[<<out[i].name>>]
        /\ \A j \in idx..Len(items) :
             exists(fs, <<items[j]>>) /\ fs[<<items[j]>>] = fs0[<<items[j]>>]

C9_NothingAfter ==
    failed # "none" => UNCHANGED <<fs, pc, idx, out, ret>>

C9_FailureIsFatal == []C9_Stopped /\ [][C9_NothingAfter]_vars

\* a call failed after one entry had been moved and before another was reached
C9_Witness ==
    /\ failed # "none"
    /\ LinesOf(out, "Moved") # {}
    /\ idx < Len(items)
    /\ ~skipped(fs, items[Len(items)])

(* ---------------- C10 -------------------------------------------------- *)
\* C10: for the same directory and the same order, a dry run reports for
\* each entry the path a live run moves it to, and never the same path for
\* two entries.
C10_DryPredictsLive ==
    (rootKind = "dir" /\ dry_run /\ pc = "returned") =>
        LET live == organize_loop(fs0, items, FALSE).out
        IN /\ \A i \in LinesOf(live, "Moved") :
                \E j \in LinesOf(out, "Would move") :
                    out[j].name = live[i].name /\ out[j].path = live[i].path
           /\ \A i, j \in LinesOf(out, "Would move") : out[i].path = out[j].path => i = j
====
